---- MODULE Spec2Model ----
(***************************************************************************)
(* Model of Sources/_Shims/spawn.c: _subprocess_spawn.                     *)
(*                                                                         *)
(* One invocation of _subprocess_spawn is followed statement by statement. *)
(* fork() makes the call continue in two processes, "orig" (the caller's   *)
(* process) and "dup" (the duplicate); each has its own program counter,   *)
(* its own locals and its own copy of the memory the pointers refer to     *)
(* (pid[] and spawn_attrs[]).  The OS calls (fork, setuid, setgid,         *)
(* setgroups, setsid, posix_spawnattr_getflags/setflags, posix_spawn) are  *)
(* black boxes that either succeed or fail with an error number.           *)
(***************************************************************************)
EXTENDS Integers, Sequences, FiniteSets, TLC

\* ------------------------------------------------------------------ bounds
MaxId == 0            \* user and group ids range over 0..MaxId
MaxSgroups == 1       \* number_of_sgroups ranges over -1..MaxSgroups
MaxSession == 1       \* create_session ranges over -MaxSession..MaxSession
MaxPid == 1           \* process ids handed out by the OS range over 1..MaxPid

\* ------------------------------------------------------------ value domains
Procs == {"orig", "dup"}

\* A nullable pointer to one value: <<>> is NULL, <<v>> points to v.
NULL == <<>>
PtrTo(v) == <<v>>
Deref(ptr) == ptr[1]

Ids == 0..MaxId
Pids == 1..MaxPid

\* errno values the OS calls may report (EPERM, ENOENT).
Errnos == {1, 2}

\* Flags of posix_spawnattr_t as a set of flag names; "flags | F" is union.
\* CallerFlags are the flags a caller may have set before the call; a caller
\* asking for POSIX_SPAWN_SETEXEC itself (replacing its own image) is not
\* part of the model.
POSIX_SPAWN_SETEXEC == "POSIX_SPAWN_SETEXEC"
CallerFlags == {"POSIX_SPAWN_CLOEXEC_DEFAULT"}
AllFlags == CallerFlags \cup {POSIX_SPAWN_SETEXEC}
FlagsOr(a, b) == a \cup b

ExecPaths == {"/bin/true", "/nonexistent"}
PathExists(path) == path = "/bin/true"

\* The arguments of a call of _subprocess_spawn (spawn.c:20-31), together
\* with the flags the caller has put into the attributes object.
Requests ==
    [exec_path : ExecPaths,
     file_actions : {"file_actions"},
     attr_flags : SUBSET CallerFlags,
     args : {"args"},
     env : {PtrTo("env")},
     uid : {NULL} \cup {PtrTo(v) : v \in Ids},
     gid : {NULL} \cup {PtrTo(v) : v \in Ids},
     number_of_sgroups : (-1)..MaxSgroups,
     sgroups : {NULL, PtrTo("sgroups")},
     create_session : (-MaxSession)..MaxSession]

NoRequest == [exec_path |-> "none"]
NoReturn == -1

\* ------------------------------------------------------------------- state
VARIABLES
    req,               \* the arguments of the call in progress
    pc,                \* per process: the statement it is at
    require_pre_fork,  \* per process: local of spawn.c:32
    childPid,          \* per process: local of spawn.c:38
    flags,             \* per process: local of spawn.c:69
    errno,             \* per process: errno
    pid,               \* per process: the memory pid points to
    spawn_attrs,       \* per process: the flags held by the object spawn_attrs points to
    ret,               \* per process: value returned by _subprocess_spawn
    trace,             \* per process: the OS calls it made, in order
    created,           \* processes the OS created: [by, via, pid]
    status,            \* shims.c: the raw wait status handed to the decoder
    decoded            \* shims.c: what each of the four queries returned

spawner == <<req, pc, require_pre_fork, childPid, flags, errno, pid,
             spawn_attrs, ret, trace, created>>
decoder == <<status, decoded>>
vars == <<spawner, decoder>>

Labels == {"idle", "none", "L32", "L37", "L38", "L39", "L44", "L50", "L56",
           "L62", "L68", "L70", "L75", "L83",
           "returned", "replaced", "terminated"}

\* One OS call as recorded in trace: the function, its argument, the value it
\* returned and the OS error it reported (0 when it succeeded).
OsCall(fn, arg, res, err) == [fn |-> fn, arg |-> arg, res |-> res, err |-> err]

Log(p, entry) == trace' = [trace EXCEPT ![p] = Append(@, entry)]
Goto(p, label) == pc' = [pc EXCEPT ![p] = label]

\* "return v;" in process p.
Return(p, v) == /\ ret' = [ret EXCEPT ![p] = v]
                /\ Goto(p, "returned")

\* No query of the decoder has been made yet.
Unset == -1
Undecoded == [exited |-> Unset, exit_code |-> Unset,
              signaled |-> Unset, signal_code |-> Unset]

Init ==
    /\ status = 0
    /\ decoded = Undecoded
    /\ req = NoRequest
    /\ pc = [p \in Procs |-> IF p = "orig" THEN "idle" ELSE "none"]
    /\ require_pre_fork = [p \in Procs |-> 0]
    /\ childPid = [p \in Procs |-> 0]
    /\ flags = [p \in Procs |-> {}]
    /\ errno = [p \in Procs |-> 0]
    /\ pid = [p \in Procs |-> 0]
    /\ spawn_attrs = [p \in Procs |-> {}]
    /\ ret = [p \in Procs |-> NoReturn]
    /\ trace = [p \in Procs |-> <<>>]
    /\ created = {}

\* The caller, in the original process, calls _subprocess_spawn(r).
Call(r) ==
    /\ pc["orig"] = "idle"
    /\ req' = r
    /\ spawn_attrs' = [spawn_attrs EXCEPT !["orig"] = r.attr_flags]
    /\ Goto("orig", "L32")
    /\ UNCHANGED <<require_pre_fork, childPid, flags, errno, pid, ret,
                   trace, created>>
    /\ UNCHANGED decoder

RequirePreFork_CountNotNegative(r) ==
    IF \/ r.uid # NULL
       \/ r.gid # NULL
       \/ r.number_of_sgroups >= 0
       \/ r.create_session > 0
    THEN 1 ELSE 0

\* spawn.c:32-35
RequirePreFork(r) ==
    IF \/ r.uid # NULL
       \/ r.gid # NULL
       \/ r.number_of_sgroups > 0
       \/ r.create_session > 0
    THEN 1 ELSE 0

ComputeRequirePreFork(p) ==
    /\ pc[p] = "L32"
    /\ require_pre_fork' = [require_pre_fork EXCEPT ![p] = RequirePreFork(req)]
    /\ Goto(p, "L37")
    /\ UNCHANGED <<req, childPid, flags, errno, pid, spawn_attrs, ret,
                   trace, created>>
    /\ UNCHANGED decoder

\* spawn.c:37  if (require_pre_fork != 0) { ... }
TestPreFork(p) ==
    /\ pc[p] = "L37"
    /\ Goto(p, IF require_pre_fork[p] # 0 THEN "L38" ELSE "L68")
    /\ UNCHANGED <<req, require_pre_fork, childPid, flags, errno, pid,
                   spawn_attrs, ret, trace, created>>
    /\ UNCHANGED decoder

\* spawn.c:38  pid_t childPid = fork();  -- success: the duplicate starts as
\* a copy of the caller, fork() returning 0 in it.
ForkOk(p, n) ==
    /\ pc[p] = "L38"
    /\ pc["dup"] = "none"
    /\ childPid' = [childPid EXCEPT ![p] = n, !["dup"] = 0]
    /\ pc' = [pc EXCEPT ![p] = "L39", !["dup"] = "L39"]
    /\ require_pre_fork' = [require_pre_fork EXCEPT !["dup"] = require_pre_fork[p]]
    /\ flags' = [flags EXCEPT !["dup"] = flags[p]]
    /\ errno' = [errno EXCEPT !["dup"] = errno[p]]
    /\ pid' = [pid EXCEPT !["dup"] = pid[p]]
    /\ spawn_attrs' = [spawn_attrs EXCEPT !["dup"] = spawn_attrs[p]]
    /\ trace' = [trace EXCEPT ![p] = Append(@, OsCall("fork", <<>>, n, 0))]
    /\ created' = created \cup {[by |-> p, via |-> "fork", pid |-> n]}
    /\ UNCHANGED <<req, ret>>
    /\ UNCHANGED decoder

\* spawn.c:38  fork() fails: -1 and errno set, no process is created.
ForkFail(p, e) ==
    /\ pc[p] = "L38"
    /\ childPid' = [childPid EXCEPT ![p] = -1]
    /\ errno' = [errno EXCEPT ![p] = e]
    /\ Log(p, OsCall("fork", <<>>, -1, e))
    /\ Goto(p, "L39")
    /\ UNCHANGED <<req, require_pre_fork, flags, pid, spawn_attrs, ret,
                   created>>
    /\ UNCHANGED decoder

ForkResult_AlwaysZero(cp, e) == 0

\* spawn.c:41  childPid < 0 ? errno : 0
ForkResult(cp, e) == IF cp < 0 THEN e ELSE 0

TestChildPid_OnlyPositive(p) ==
    /\ pc[p] = "L39"
    /\ IF childPid[p] > 0
       THEN /\ pid' = [pid EXCEPT ![p] = childPid[p]]
            /\ Return(p, ForkResult(childPid[p], errno[p]))
       ELSE /\ Goto(p, "L44")
            /\ UNCHANGED <<pid, ret>>
    /\ UNCHANGED <<req, require_pre_fork, childPid, flags, errno,
                   spawn_attrs, trace, created>>
    /\ UNCHANGED decoder

\* spawn.c:39-42  if (childPid != 0) { pid[0] = childPid; return ...; }
TestChildPid(p) ==
    /\ pc[p] = "L39"
    /\ IF childPid[p] # 0
       THEN /\ pid' = [pid EXCEPT ![p] = childPid[p]]
            /\ Return(p, ForkResult(childPid[p], errno[p]))
       ELSE /\ Goto(p, "L44")
            /\ UNCHANGED <<pid, ret>>
    /\ UNCHANGED <<req, require_pre_fork, childPid, flags, errno,
                   spawn_attrs, trace, created>>
    /\ UNCHANGED decoder

\* spawn.c:44-48  if (uid != NULL) { if (setuid(uid[0]) != 0) return errno; }
SetuidSkip(p) ==
    /\ pc[p] = "L44"
    /\ req.uid = NULL
    /\ Goto(p, "L50")
    /\ UNCHANGED <<req, require_pre_fork, childPid, flags, errno, pid,
                   spawn_attrs, ret, trace, created>>
    /\ UNCHANGED decoder

SetuidOk(p) ==
    /\ pc[p] = "L44"
    /\ req.uid # NULL
    /\ Log(p, OsCall("setuid", Deref(req.uid), 0, 0))
    /\ Goto(p, "L50")
    /\ UNCHANGED <<req, require_pre_fork, childPid, flags, errno, pid,
                   spawn_attrs, ret, created>>
    /\ UNCHANGED decoder

SetuidFail(p, e) ==
    /\ pc[p] = "L44"
    /\ req.uid # NULL
    /\ Log(p, OsCall("setuid", Deref(req.uid), -1, e))
    /\ errno' = [errno EXCEPT ![p] = e]
    /\ Return(p, e)
    /\ UNCHANGED <<req, require_pre_fork, childPid, flags, pid,
                   spawn_attrs, created>>
    /\ UNCHANGED decoder

\* spawn.c:50-54  if (gid != NULL) { if (setgid(gid[0]) != 0) return errno; }
SetgidSkip(p) ==
    /\ pc[p] = "L50"
    /\ req.gid = NULL
    /\ Goto(p, "L56")
    /\ UNCHANGED <<req, require_pre_fork, childPid, flags, errno, pid,
                   spawn_attrs, ret, trace, created>>
    /\ UNCHANGED decoder

SetgidOk(p) ==
    /\ pc[p] = "L50"
    /\ req.gid # NULL
    /\ Log(p, OsCall("setgid", Deref(req.gid), 0, 0))
    /\ Goto(p, "L56")
    /\ UNCHANGED <<req, require_pre_fork, childPid, flags, errno, pid,
                   spawn_attrs, ret, created>>
    /\ UNCHANGED decoder

SetgidFail(p, e) ==
    /\ pc[p] = "L50"
    /\ req.gid # NULL
    /\ Log(p, OsCall("setgid", Deref(req.gid), -1, e))
    /\ errno' = [errno EXCEPT ![p] = e]
    /\ Return(p, e)
    /\ UNCHANGED <<req, require_pre_fork, childPid, flags, pid,
                   spawn_attrs, created>>
    /\ UNCHANGED decoder

WantsSetgroups_NoCountTest(r) == r.sgroups # NULL

WantsSetgroups_CountNotNegative(r) ==
    r.number_of_sgroups >= 0 /\ r.sgroups # NULL

\* spawn.c:56  number_of_sgroups > 0 && sgroups != NULL
WantsSetgroups(r) == r.number_of_sgroups > 0 /\ r.sgroups # NULL

\* spawn.c:56-60  if (...) { if (setgroups(n, sgroups) != 0) return errno; }
SetgroupsSkip(p) ==
    /\ pc[p] = "L56"
    /\ ~WantsSetgroups(req)
    /\ Goto(p, "L62")
    /\ UNCHANGED <<req, require_pre_fork, childPid, flags, errno, pid,
                   spawn_attrs, ret, trace, created>>
    /\ UNCHANGED decoder

SetgroupsOk(p) ==
    /\ pc[p] = "L56"
    /\ WantsSetgroups(req)
    /\ Log(p, OsCall("setgroups", req.number_of_sgroups, 0, 0))
    /\ Goto(p, "L62")
    /\ UNCHANGED <<req, require_pre_fork, childPid, flags, errno, pid,
                   spawn_attrs, ret, created>>
    /\ UNCHANGED decoder

SetgroupsFail(p, e) ==
    /\ pc[p] = "L56"
    /\ WantsSetgroups(req)
    /\ Log(p, OsCall("setgroups", req.number_of_sgroups, -1, e))
    /\ errno' = [errno EXCEPT ![p] = e]
    /\ Return(p, e)
    /\ UNCHANGED <<req, require_pre_fork, childPid, flags, pid,
                   spawn_attrs, created>>
    /\ UNCHANGED decoder

\* spawn.c:62  create_session != 0
WantsSetsid(r) == r.create_session # 0

\* spawn.c:62-64  if (create_session != 0) { (void)setsid(); }
SetsidSkip(p) ==
    /\ pc[p] = "L62"
    /\ ~WantsSetsid(req)
    /\ Goto(p, "L68")
    /\ UNCHANGED <<req, require_pre_fork, childPid, flags, errno, pid,
                   spawn_attrs, ret, trace, created>>
    /\ UNCHANGED decoder

SetsidOk(p) ==
    /\ pc[p] = "L62"
    /\ WantsSetsid(req)
    /\ Log(p, OsCall("setsid", <<>>, 0, 0))
    /\ Goto(p, "L68")
    /\ UNCHANGED <<req, require_pre_fork, childPid, flags, errno, pid,
                   spawn_attrs, ret, created>>
    /\ UNCHANGED decoder

\* The result of setsid() is discarded: a failure only sets errno.
SetsidFail(p, e) ==
    /\ pc[p] = "L62"
    /\ WantsSetsid(req)
    /\ Log(p, OsCall("setsid", <<>>, -1, e))
    /\ errno' = [errno EXCEPT ![p] = e]
    /\ Goto(p, "L68")
    /\ UNCHANGED <<req, require_pre_fork, childPid, flags, pid,
                   spawn_attrs, ret, created>>
    /\ UNCHANGED decoder

\* spawn.c:68-69  if (require_pre_fork) { short flags = 0; ...
TestSetExec(p) ==
    /\ pc[p] = "L68"
    /\ IF require_pre_fork[p] # 0
       THEN /\ flags' = [flags EXCEPT ![p] = {}]
            /\ Goto(p, "L70")
       ELSE /\ Goto(p, "L83")
            /\ UNCHANGED flags
    /\ UNCHANGED <<req, require_pre_fork, childPid, errno, pid,
                   spawn_attrs, ret, trace, created>>
    /\ UNCHANGED decoder

\* spawn.c:70-73  rc = posix_spawnattr_getflags(spawn_attrs, &flags);
GetflagsOk(p) ==
    /\ pc[p] = "L70"
    /\ flags' = [flags EXCEPT ![p] = spawn_attrs[p]]
    /\ Log(p, OsCall("posix_spawnattr_getflags", <<>>, 0, 0))
    /\ Goto(p, "L75")
    /\ UNCHANGED <<req, require_pre_fork, childPid, errno, pid,
                   spawn_attrs, ret, created>>
    /\ UNCHANGED decoder

GetflagsFail(p, e) ==
    /\ pc[p] = "L70"
    /\ Log(p, OsCall("posix_spawnattr_getflags", <<>>, e, e))
    /\ Return(p, e)
    /\ UNCHANGED <<req, require_pre_fork, childPid, flags, errno, pid,
                   spawn_attrs, created>>
    /\ UNCHANGED decoder

ExecFlags_DropsOldFlags(f) == {POSIX_SPAWN_SETEXEC}

\* spawn.c:76  the flags argument: flags | POSIX_SPAWN_SETEXEC
ExecFlags(f) == FlagsOr(f, {POSIX_SPAWN_SETEXEC})

\* spawn.c:75-79  rc = posix_spawnattr_setflags(spawn_attrs, flags | SETEXEC);
SetflagsOk(p) ==
    /\ pc[p] = "L75"
    /\ spawn_attrs' = [spawn_attrs EXCEPT ![p] = ExecFlags(flags[p])]
    /\ Log(p, OsCall("posix_spawnattr_setflags", ExecFlags(flags[p]), 0, 0))
    /\ Goto(p, "L83")
    /\ UNCHANGED <<req, require_pre_fork, childPid, flags, errno, pid,
                   ret, created>>
    /\ UNCHANGED decoder

SetflagsFail(p, e) ==
    /\ pc[p] = "L75"
    /\ Log(p, OsCall("posix_spawnattr_setflags", ExecFlags(flags[p]), e, e))
    /\ Return(p, e)
    /\ UNCHANGED <<req, require_pre_fork, childPid, flags, errno, pid,
                   spawn_attrs, created>>
    /\ UNCHANGED decoder

\* spawn.c:83  the arguments handed to posix_spawn
SpawnArgs(p) ==
    [exec_path |-> req.exec_path, file_actions |-> req.file_actions,
     attrs |-> spawn_attrs[p], args |-> req.args, env |-> req.env]

\* spawn.c:83  return posix_spawn(...);  without POSIX_SPAWN_SETEXEC a new
\* process is created, its id stored through pid, and 0 returned.
SpawnNewProcess(p, n) ==
    /\ pc[p] = "L83"
    /\ POSIX_SPAWN_SETEXEC \notin spawn_attrs[p]
    /\ PathExists(req.exec_path)
    /\ Log(p, OsCall("posix_spawn", SpawnArgs(p), 0, 0))
    /\ pid' = [pid EXCEPT ![p] = n]
    /\ created' = created \cup {[by |-> p, via |-> "posix_spawn", pid |-> n]}
    /\ Return(p, 0)
    /\ UNCHANGED <<req, require_pre_fork, childPid, flags, errno,
                   spawn_attrs>>
    /\ UNCHANGED decoder

\* spawn.c:83  with POSIX_SPAWN_SETEXEC the process image is replaced and the
\* call does not return.
SpawnReplaceImage(p) ==
    /\ pc[p] = "L83"
    /\ POSIX_SPAWN_SETEXEC \in spawn_attrs[p]
    /\ PathExists(req.exec_path)
    /\ Log(p, OsCall("posix_spawn", SpawnArgs(p), 0, 0))
    /\ Goto(p, "replaced")
    /\ UNCHANGED <<req, require_pre_fork, childPid, flags, errno, pid,
                   spawn_attrs, ret, created>>
    /\ UNCHANGED decoder

\* spawn.c:83  posix_spawn fails: its error number is the return value and no
\* process is created.
SpawnFail(p, e) ==
    /\ pc[p] = "L83"
    /\ Log(p, OsCall("posix_spawn", SpawnArgs(p), e, e))
    /\ Return(p, e)
    /\ UNCHANGED <<req, require_pre_fork, childPid, flags, errno, pid,
                   spawn_attrs, created>>
    /\ UNCHANGED decoder

Next ==
    \/ \E r \in Requests : Call(r)
    \/ \E p \in Procs : ComputeRequirePreFork(p)
    \/ \E p \in Procs : TestPreFork(p)
    \/ \E p \in Procs, n \in Pids : ForkOk(p, n)
    \/ \E p \in Procs, e \in Errnos : ForkFail(p, e)
    \/ \E p \in Procs : TestChildPid(p)
    \/ \E p \in Procs : SetuidSkip(p)
    \/ \E p \in Procs : SetuidOk(p)
    \/ \E p \in Procs, e \in Errnos : SetuidFail(p, e)
    \/ \E p \in Procs : SetgidSkip(p)
    \/ \E p \in Procs : SetgidOk(p)
    \/ \E p \in Procs, e \in Errnos : SetgidFail(p, e)
    \/ \E p \in Procs : SetgroupsSkip(p)
    \/ \E p \in Procs : SetgroupsOk(p)
    \/ \E p \in Procs, e \in Errnos : SetgroupsFail(p, e)
    \/ \E p \in Procs : SetsidSkip(p)
    \/ \E p \in Procs : SetsidOk(p)
    \/ \E p \in Procs, e \in Errnos : SetsidFail(p, e)
    \/ \E p \in Procs : TestSetExec(p)
    \/ \E p \in Procs : GetflagsOk(p)
    \/ \E p \in Procs, e \in Errnos : GetflagsFail(p, e)
    \/ \E p \in Procs : SetflagsOk(p)
    \/ \E p \in Procs, e \in Errnos : SetflagsFail(p, e)
    \/ \E p \in Procs, n \in Pids : SpawnNewProcess(p, n)
    \/ \E p \in Procs : SpawnReplaceImage(p)
    \/ \E p \in Procs, e \in Errnos : SpawnFail(p, e)

Spec == Init /\ [][Next]_vars

TypeOK ==
    /\ req \in Requests \cup {NoRequest}
    /\ pc \in [Procs -> Labels]
    /\ require_pre_fork \in [Procs -> {0, 1}]
    /\ childPid \in [Procs -> {-1, 0} \cup Pids]
    /\ flags \in [Procs -> SUBSET AllFlags]
    /\ errno \in [Procs -> {0} \cup Errnos]
    /\ pid \in [Procs -> {-1, 0} \cup Pids]
    /\ spawn_attrs \in [Procs -> SUBSET AllFlags]
    /\ ret \in [Procs -> {NoReturn, 0} \cup Errnos]


\* ------------------------------------------------- shims.c: status decoder
\* The wait-status macros of <sys/wait.h> (shims.c:13), on integers:
\* "x & 0177" is x % 128 and "(x >> 8) & 0xff" is (x \div 256) % 256.
_WSTATUS(x) == x % 128

WIFEXITED(x) == IF _WSTATUS(x) = 0 THEN 1 ELSE 0

WEXITSTATUS_NoShift(x) == x % 256
WEXITSTATUS(x) == (x \div 256) % 256

WIFSIGNALED_NoZeroTest(x) == IF _WSTATUS(x) # 127 THEN 1 ELSE 0
WIFSIGNALED(x) == IF _WSTATUS(x) # 127 /\ _WSTATUS(x) # 0 THEN 1 ELSE 0

WTERMSIG_WholeByte(x) == x % 256
WTERMSIG(x) == _WSTATUS(x)

\* shims.c:15-17
_was_process_exited(s) == WIFEXITED(s)

\* shims.c:19-21
_get_exit_code(s) == WEXITSTATUS(s)

\* shims.c:23-25
_was_process_signaled(s) == WIFSIGNALED(s)

\* shims.c:27-29
_get_signal_code(s) == WTERMSIG(s)

\* The raw status the OS reports for exit code c and low byte lo (the
\* terminating signal, plus 128 when a core was dumped; 127 when stopped).
EncodeStatus(c, lo) == c * 256 + lo

MaxHighByte == 1      \* high bytes combined with every low byte: 0..MaxHighByte

ExitCodes == 0..255
LowBytes == 0..255
Signals == 1..126

Statuses ==
    {EncodeStatus(c, 0) : c \in ExitCodes}
        \cup {EncodeStatus(c, lo) : c \in 0..MaxHighByte, lo \in LowBytes}

DecoderInit ==
    /\ status \in Statuses
    /\ decoded = Undecoded
    /\ req = NoRequest
    /\ pc = [p \in Procs |-> IF p = "orig" THEN "idle" ELSE "none"]
    /\ require_pre_fork = [p \in Procs |-> 0]
    /\ childPid = [p \in Procs |-> 0]
    /\ flags = [p \in Procs |-> {}]
    /\ errno = [p \in Procs |-> 0]
    /\ pid = [p \in Procs |-> 0]
    /\ spawn_attrs = [p \in Procs |-> {}]
    /\ ret = [p \in Procs |-> NoReturn]
    /\ trace = [p \in Procs |-> <<>>]
    /\ created = {}

\* The caller asks _was_process_exited(status).
WasProcessExited ==
    /\ decoded.exited = Unset
    /\ decoded' = [decoded EXCEPT !.exited = _was_process_exited(status)]
    /\ UNCHANGED <<status, spawner>>

\* The caller asks _get_exit_code(status).
GetExitCode ==
    /\ decoded.exit_code = Unset
    /\ decoded' = [decoded EXCEPT !.exit_code = _get_exit_code(status)]
    /\ UNCHANGED <<status, spawner>>

\* The caller asks _was_process_signaled(status).
WasProcessSignaled ==
    /\ decoded.signaled = Unset
    /\ decoded' = [decoded EXCEPT !.signaled = _was_process_signaled(status)]
    /\ UNCHANGED <<status, spawner>>

\* The caller asks _get_signal_code(status).
GetSignalCode ==
    /\ decoded.signal_code = Unset
    /\ decoded' = [decoded EXCEPT !.signal_code = _get_signal_code(status)]
    /\ UNCHANGED <<status, spawner>>

DecoderNext ==
    \/ WasProcessExited
    \/ GetExitCode
    \/ WasProcessSignaled
    \/ GetSignalCode

DecoderSpec == DecoderInit /\ [][DecoderNext]_vars

DecoderTypeOK ==
    /\ status \in Statuses
    /\ decoded \in [exited : {Unset, 0, 1}, exit_code : {Unset} \cup ExitCodes,
                    signaled : {Unset, 0, 1}, signal_code : {Unset} \cup 0..127]

\* ------------------------------------------------------- reading the trace
Finished(p) == pc[p] \in {"returned", "replaced", "terminated"}
Entries(p) == {trace[p][i] : i \in DOMAIN trace[p]}
Made(p, fn) == \E c \in Entries(p) : c.fn = fn
Failed(p, fn) == \E c \in Entries(p) : c.fn = fn /\ c.err # 0
LastCall(p) == trace[p][Len(trace[p])]

OverrideFns == {"setuid", "setgid", "setgroups", "setsid"}

\* The decision rule as the specification words it: a user id override is
\* present, a group id override is present, the supplementary-group list is
\* non-empty, or the create-session flag is set (a C flag is set when it is
\* not zero, which is also how spawn.c:62 reads it).
NeedsPreFork(r) ==
    \/ r.uid # NULL
    \/ r.gid # NULL
    \/ r.number_of_sgroups > 0
    \/ r.create_session # 0

\* C1: for every call, fork is invoked if and only if needsPreFork holds
\* (user id override, group id override, non-empty supplementary-group list
\* or create-session flag set).
C1_ForkIffNeedsPreFork ==
    pc["orig"] = "returned" => (Made("orig", "fork") <=> NeedsPreFork(req))

\* C2: when needsPreFork is false the call never forks, never calls setuid,
\* setgid, setgroups or setsid, invokes posix_spawn exactly once with the
\* caller's path, file actions, attributes, arguments and environment, and
\* returns its result unchanged: a process id on success, the OS error code
\* on failure, and on failure no process has been created.
C2_PathADirectSpawn ==
    (req # NoRequest /\ ~NeedsPreFork(req)) =>
        /\ pc["dup"] = "none"
        /\ \A c \in Entries("orig") : c.fn = "posix_spawn"
        /\ Len(trace["orig"]) <= 1
        /\ Finished("orig") =>
            /\ pc["orig"] = "returned"
            /\ Len(trace["orig"]) = 1
            /\ trace["orig"][1].arg =
                   [exec_path |-> req.exec_path,
                    file_actions |-> req.file_actions,
                    attrs |-> req.attr_flags,
                    args |-> req.args, env |-> req.env]
            /\ ret["orig"] = trace["orig"][1].res
            /\ ret["orig"] = 0 =>
                   /\ pid["orig"] \in Pids
                   /\ created = {[by |-> "orig", via |-> "posix_spawn",
                                  pid |-> pid["orig"]]}
            /\ ret["orig"] # 0 => (ret["orig"] \in Errnos /\ created = {})
            /\ ~PathExists(req.exec_path) => ret["orig"] # 0

C2_Witness ==
    /\ req # NoRequest
    /\ ~NeedsPreFork(req)
    /\ ~PathExists(req.exec_path)
    /\ pc["orig"] = "returned"
    /\ ret["orig"] \in Errnos
    /\ created = {}


\* Position of each OS call in the order the duplicate has to keep.
Rank(fn) ==
    CASE fn = "setuid" -> 1
      [] fn = "setgid" -> 2
      [] fn = "setgroups" -> 3
      [] fn = "setsid" -> 4
      [] fn = "posix_spawnattr_getflags" -> 5
      [] fn = "posix_spawnattr_setflags" -> 6
      [] fn = "posix_spawn" -> 7
      [] OTHER -> 0

Requested(r, fn) ==
    CASE fn = "setuid" -> r.uid # NULL
      [] fn = "setgid" -> r.gid # NULL
      [] fn = "setgroups" -> r.number_of_sgroups > 0 /\ r.sgroups # NULL
      [] fn = "setsid" -> r.create_session # 0
      [] OTHER -> FALSE

\* C3: in the duplicate the override steps run strictly in the order setuid,
\* setgid, setgroups, setsid; each runs at most once and only if requested,
\* and all of them run before the exec-equivalent posix_spawn call.
C3_OverrideOrder ==
    /\ \A i, j \in DOMAIN trace["dup"] :
           i < j => Rank(trace["dup"][i].fn) < Rank(trace["dup"][j].fn)
    /\ \A fn \in OverrideFns : Made("dup", fn) => Requested(req, fn)
    /\ Made("dup", "posix_spawn") =>
           \A fn \in OverrideFns : Requested(req, fn) => Made("dup", fn)

C3_Witness ==
    /\ Len(trace["dup"]) = 7
    /\ [i \in 1..4 |-> trace["dup"][i].fn] =
           <<"setuid", "setgid", "setgroups", "setsid">>
    /\ LastCall("dup").fn = "posix_spawn"

\* C4: in the duplicate a failure of any of the four override steps (setuid,
\* setgid, setgroups, setsid) aborts the sequence: no later override step
\* runs, the attributes are not marked for in-place replacement and the
\* exec-equivalent posix_spawn call is not made.
C4_OverrideFailureAborts ==
    \A i \in DOMAIN trace["dup"] :
        (trace["dup"][i].fn \in OverrideFns /\ trace["dup"][i].err # 0) =>
            /\ i = Len(trace["dup"])
            /\ POSIX_SPAWN_SETEXEC \notin spawn_attrs["dup"]

\* C5: if the exec-equivalent posix_spawn call made by the duplicate fails,
\* the duplicate terminates; it never returns from the spawn routine into
\* the caller's code.
C5_DupTerminatesOnExecFailure ==
    (Failed("dup", "posix_spawn") /\ Finished("dup")) =>
        pc["dup"] = "terminated"

\* C6: an override failure in the duplicate is not delivered by returning
\* from the spawn routine: after a successful fork the duplicate only ever
\* ends with its image replaced or terminated, never returned to the caller.
C6_DupNeverReturns ==
    Finished("dup") => pc["dup"] \in {"replaced", "terminated"}


\* C7: when the setuid override fails in the duplicate, the spawn call seen
\* by the caller in the original process yields an OS error code.
C7_SetuidFailureSeenByCaller ==
    (Failed("dup", "setuid") /\ pc["orig"] = "returned") =>
        ret["orig"] \in Errnos

\* C8: on the fork path the result in the original process depends only on
\* the fork: the OS error of a failed fork, otherwise success with the
\* duplicate's process id, whatever happens in the duplicate; after fork the
\* original makes no override call, no attribute mutation and no spawn call.
C8_OriginalResultIsForkResult ==
    Made("orig", "fork") =>
        /\ Len(trace["orig"]) = 1
        /\ spawn_attrs["orig"] = req.attr_flags
        /\ flags["orig"] = {}
        /\ pc["orig"] \in {"L39", "returned"}
        /\ pc["orig"] = "returned" =>
               IF trace["orig"][1].err # 0
               THEN /\ ret["orig"] = trace["orig"][1].err
                    /\ pc["dup"] = "none"
               ELSE /\ ret["orig"] = 0
                    /\ pid["orig"] = trace["orig"][1].res
                    /\ pid["orig"] \in Pids

C8_Witness ==
    /\ pc["orig"] = "returned"
    /\ ret["orig"] = 0
    /\ Failed("dup", "setgid")
    /\ pc["dup"] = "returned"

\* C9: every completed spawn call in the original process yields exactly one
\* of two outcomes: return value 0 with a positive process id stored in the
\* output, or a non-zero OS error code; success with a non-positive process
\* id never occurs.
C9_PidOrErrorCode ==
    pc["orig"] = "returned" =>
        \/ ret["orig"] = 0 /\ pid["orig"] > 0
        \/ ret["orig"] # 0 /\ ret["orig"] \in Errnos

C9_Witness ==
    /\ pc["orig"] = "returned"
    /\ Failed("orig", "fork")
    /\ ret["orig"] \in Errnos
    /\ pid["orig"] < 0

\* C10: the caller's attributes and file actions are passed through
\* unmodified, except that the duplicate of the fork path adds
\* POSIX_SPAWN_SETEXEC to the flags already set; the attributes seen by the
\* original process are never changed by a call, on either path.
C10_AttributesPassThrough ==
    req # NoRequest =>
        /\ spawn_attrs["orig"] = req.attr_flags
        /\ ~Made("orig", "posix_spawnattr_setflags")
        /\ pc["dup"] # "none" =>
               spawn_attrs["dup"] \in
                   {req.attr_flags, req.attr_flags \cup {POSIX_SPAWN_SETEXEC}}
        /\ Made("dup", "posix_spawnattr_setflags")
               /\ ~Failed("dup", "posix_spawnattr_setflags") =>
               spawn_attrs["dup"] = req.attr_flags \cup {POSIX_SPAWN_SETEXEC}
        /\ \A p \in Procs : \A c \in Entries(p) : c.fn = "posix_spawn" =>
               /\ c.arg.file_actions = req.file_actions
               /\ c.arg.exec_path = req.exec_path
               /\ c.arg.args = req.args
               /\ c.arg.env = req.env
               /\ c.arg.attrs = IF p = "orig" THEN req.attr_flags
                                ELSE req.attr_flags \cup {POSIX_SPAWN_SETEXEC}

C10_Witness ==
    /\ req # NoRequest
    /\ req.attr_flags # {}
    /\ pc["dup"] = "replaced"
    /\ spawn_attrs["dup"] = req.attr_flags \cup {POSIX_SPAWN_SETEXEC}
    /\ spawn_attrs["orig"] = req.attr_flags
    /\ pc["orig"] = "returned"


\* The request r with the supplementary-group list left out.
SgroupsOmitted(r) == [r EXCEPT !.sgroups = NULL]

\* C11: a call with a supplementary-group list supplied but a count of zero
\* behaves like the same call with the list omitted: the same path is
\* selected, the same override calls are made before posix_spawn, and
\* setgroups is never called.
C11_ZeroCountIsOmitted ==
    (req # NoRequest /\ req.number_of_sgroups = 0) =>
        /\ \A p \in Procs :
               pc[p] \notin {"idle", "none", "L32"} =>
                   require_pre_fork[p] = RequirePreFork(SgroupsOmitted(req))
        /\ Finished("orig") =>
               (Made("orig", "fork") <=> RequirePreFork(SgroupsOmitted(req)) = 1)
        /\ \A p \in Procs : ~Made(p, "setgroups")
        /\ \A p \in Procs :
               Made(p, "posix_spawn") =>
                   \A fn \in OverrideFns :
                       Made(p, fn) <=>
                           (p = "dup" /\ Requested(SgroupsOmitted(req), fn))

C11_Witness ==
    /\ req # NoRequest
    /\ req.number_of_sgroups = 0
    /\ req.sgroups # NULL
    /\ Made("dup", "setgid")
    /\ Made("dup", "posix_spawn")


\* C12: for every raw wait status, _was_process_exited and
\* _was_process_signaled are never both true.
C12_NeverExitedAndSignaled ==
    ~(decoded.exited \notin {Unset, 0} /\ decoded.signaled \notin {Unset, 0})

C12_Witness ==
    /\ _WSTATUS(status) \in Signals
    /\ decoded.exited = 0
    /\ decoded.signaled = 1

\* C13: for every raw status that encodes a normal exit with code c,
\* 0 <= c <= 255, _was_process_exited returns true and _get_exit_code
\* returns c.
C13_ExitCodeRoundTrip ==
    \A c \in ExitCodes :
        status = EncodeStatus(c, 0) =>
            /\ decoded.exited # Unset => decoded.exited # 0
            /\ decoded.exit_code # Unset => decoded.exit_code = c

C13_Witness ==
    /\ status = EncodeStatus(255, 0)
    /\ decoded.exited = 1
    /\ decoded.exit_code = 255

\* C14: for every raw status that encodes termination by signal s (with or
\* without a core dump), _was_process_signaled returns true and
\* _get_signal_code returns s.
C14_SignalCodeRoundTrip ==
    \A s \in Signals, core \in {0, 1} :
        status = EncodeStatus(0, s + 128 * core) =>
            /\ decoded.signaled # Unset => decoded.signaled # 0
            /\ decoded.signal_code # Unset => decoded.signal_code = s

C14_Witness ==
    /\ status = EncodeStatus(0, 9 + 128)
    /\ decoded.signaled = 1
    /\ decoded.signal_code = 9


\* C15: the duplicate invokes posix_spawn only after every requested
\* override succeeded and only with POSIX_SPAWN_SETEXEC set on the
\* attributes, so that no third process is ever created; if reading or
\* setting the flags fails, posix_spawn is not invoked at all.
C15_SpawnOnlyAfterOverridesSucceeded ==
    /\ Cardinality(created) <= 1
    /\ \A c \in Entries("dup") : c.fn = "posix_spawn" =>
           /\ POSIX_SPAWN_SETEXEC \in c.arg.attrs
           /\ \A fn \in OverrideFns :
                  Requested(req, fn) => (Made("dup", fn) /\ ~Failed("dup", fn))
    /\ (Failed("dup", "posix_spawnattr_getflags")
            \/ Failed("dup", "posix_spawnattr_setflags")) =>
           ~Made("dup", "posix_spawn")

\* The call went all the way to posix_spawn, in the original process without
\* a fork or in the duplicate after one.
ReachedSpawn == Made("orig", "posix_spawn") \/ Made("dup", "posix_spawn")

\* C16: the test of create_session that selects the fork path and the test
\* that runs the session step agree for every integer value: a call attempts
\* setsid if and only if create_session is not zero, negative values and
\* calls without any other override included.
C16_SetsidIffCreateSession ==
    ReachedSpawn =>
        ((Made("orig", "setsid") \/ Made("dup", "setsid"))
             <=> req.create_session # 0)

\* C17: whenever a call forks, the duplicate attempts at least one of setuid,
\* setgid, setgroups, setsid before the exec-equivalent call; in particular
\* a positive supplementary-group count always leads to a setgroups call.
C17_ForkImpliesOverride ==
    Made("dup", "posix_spawn") =>
        /\ \E fn \in OverrideFns : Made("dup", fn)
        /\ req.number_of_sgroups > 0 => Made("dup", "setgroups")

====
